---- MODULE Spec2Model ----
(***************************************************************************)
(* PrefixListMonitor (src/src/main.rs): a monitor that polls an IP echo    *)
(* service and keeps one tagged entry of an AWS managed prefix list equal  *)
(* to the host's external address.  The managed prefix list is shared with *)
(* external writers, whose edits interleave with the monitor's calls.      *)
(*                                                                         *)
(* Text (the HTTP body, addresses, CIDRs) is a sequence of one-character   *)
(* strings, so that trimming, parsing and formatting are computed.         *)
(***************************************************************************)
EXTENDS Integers, Sequences, FiniteSets, TLC

\* ------------------------------------------------------------------ bounds
\* The prefix list's version counter is capped: no edit is applied at the cap.
MaxVersion == 3

\* ------------------------------------------------------------------- text
Whitespace == {" ", "\t", "\n", "\r"}

Digits == <<"0", "1", "2", "3", "4", "5", "6", "7", "8", "9">>

IsDigit(c) == \E i \in 1..10 : Digits[i] = c

DigitVal(c) == (CHOOSE i \in 1..10 : Digits[i] = c) - 1

RECURSIVE TrimStart(_)
TrimStart(s) ==
    IF s # <<>> /\ Head(s) \in Whitespace THEN TrimStart(Tail(s)) ELSE s

RECURSIVE TrimEnd(_)
TrimEnd(s) ==
    IF s # <<>> /\ s[Len(s)] \in Whitespace
    THEN TrimEnd(SubSeq(s, 1, Len(s) - 1))
    ELSE s

\* str::trim: leading and trailing whitespace removed.
Trim(s) == TrimEnd(TrimStart(s))

\* The text cut at every ".": "1.2" gives <<"1","2">>, "" gives <<"">>.
RECURSIVE SplitDots(_)
SplitDots(s) ==
    IF \E i \in 1..Len(s) : s[i] = "."
    THEN LET i == CHOOSE k \in 1..Len(s) :
                    s[k] = "." /\ \A j \in 1..(k - 1) : s[j] # "."
         IN  <<SubSeq(s, 1, i - 1)>> \o SplitDots(SubSeq(s, i + 1, Len(s)))
    ELSE <<s>>

RECURSIVE DecimalValue(_)
DecimalValue(ds) ==
    IF ds = <<>> THEN 0
    ELSE 10 * DecimalValue(SubSeq(ds, 1, Len(ds) - 1)) + DigitVal(ds[Len(ds)])

\* IsOctet without the range check of u8.
IsOctetNoRange(p) ==
    /\ Len(p) \in 1..3
    /\ \A i \in 1..Len(p) : IsDigit(p[i])
    /\ (Len(p) > 1 => p[1] # "0")

\* One octet of a dotted quad: 1 to 3 decimal digits, no leading zero on a
\* number of several digits, value within u8.
IsOctet(p) ==
    /\ Len(p) \in 1..3
    /\ \A i \in 1..Len(p) : IsDigit(p[i])
    /\ (Len(p) > 1 => p[1] # "0")
    /\ DecimalValue(p) <= 255

\* ip.parse::<std::net::Ipv4Addr>().is_ok()
IsValidIpv4(s) ==
    LET parts == SplitDots(s)
    IN  /\ Len(parts) = 4
        /\ \A i \in 1..4 : IsOctet(parts[i])

\* Decimal writing the digits lowest first.
RECURSIVE DecimalReversed(_)
DecimalReversed(n) ==
    IF n < 10 THEN <<Digits[n + 1]>>
    ELSE <<Digits[(n % 10) + 1]>> \o DecimalReversed(n \div 10)

\* Display of an unsigned integer: its decimal digits, "0" for zero.
RECURSIVE Decimal(_)
Decimal(n) ==
    IF n < 10 THEN <<Digits[n + 1]>>
    ELSE Decimal(n \div 10) \o <<Digits[(n % 10) + 1]>>

\* format!("{}/{}", external_ip, self.cidr_suffix)
FormatCidr(ip, suffix) == ip \o <<"/">> \o Decimal(suffix)

\* ----------------------------------------------------------------- inputs
Addr192 == <<"1","9","2",".","1","6","8",".","1",".","1">>
Addr5678 == <<"5",".","6",".","7",".","8">>

\* The addresses the IP service can report for this host.
Addresses == {Addr192, Addr5678}

\* Bodies the IP service can answer with.
Responses ==
    { Addr192,
      <<" ">> \o Addr5678 \o <<"\n">>,
      <<"i","n","v","a","l","i","d">>,
      <<"2","5","6",".","1",".","1",".","1">>,
      <<"t","i","m","e","o","u","t">>,
      <<>> }

\* The outcome of a request that failed, where Some(body) is one that answered.
FetchError == [tag |-> "Err"]

\* Values of --cidr-suffix, --description, --prefix-list-id the runs start with.
Suffixes == {24, 32}
Descriptions == {"Auto-updated host IP", "office"}
PrefixListIds == {"pl-1"}

\* An entry of the list without a description.
NoDescription == "(none)"
RemoteDescriptions == Descriptions \cup {NoDescription}

\* Option<T>
None == [tag |-> "None"]
Some(x) == [tag |-> "Some", val |-> x]

\* ------------------------------------------------------------------ state
VARIABLES
    \* PrefixListMonitor's fields
    prefix_list_id, description, current_ip, cidr_suffix,
    \* run's argument, position, result and the log line of its match
    once, pc, run_result, logged,
    \* check_and_update's and update_prefix_list's locals
    external_ip, new_cidr, current_entries, version,
    \* the managed prefix list at the service
    entries, list_version,
    \* history of the cycle in progress
    response, calls, request, outcome, start_ip, listed_at, applied,
    \* history across cycles
    first_cycle, after_conflict

monitor == <<prefix_list_id, description, current_ip, cidr_suffix>>
control == <<once, run_result, logged>>
locals == <<external_ip, new_cidr, current_entries, version>>
remote == <<entries, list_version>>
history == <<response, calls, request, outcome, start_ip, listed_at, applied>>
vars == <<monitor, control, pc, locals, remote, history, first_cycle, after_conflict>>

\* The CIDRs the list can hold in a run: those of the host's addresses.
Cidrs == {FormatCidr(a, cidr_suffix) : a \in Addresses}

\* The list holds at most one entry per CIDR.
UniqueCidrs(es) == \A e1 \in es, e2 \in es : e1.cidr = e2.cidr => e1 = e2

\* PrefixListMonitor::new, and run entered with a list in any state.
Init ==
    /\ prefix_list_id \in PrefixListIds
    /\ description \in Descriptions
    /\ current_ip = None
    /\ cidr_suffix \in Suffixes
    /\ once \in BOOLEAN
    /\ pc = "check"
    /\ run_result = "running"
    /\ logged = "none"
    /\ external_ip = <<>>
    /\ new_cidr = <<>>
    /\ current_entries = {}
    /\ version = 0
    /\ entries \in {es \in SUBSET [cidr : Cidrs, description : RemoteDescriptions] :
                        UniqueCidrs(es)}
    /\ list_version = 1
    /\ response = None
    /\ calls = <<>>
    /\ request = None
    /\ outcome = "running"
    /\ start_ip = None
    /\ listed_at = 0
    /\ applied = None
    /\ first_cycle = TRUE
    /\ after_conflict = None

\* ------------------------------------------------------- decisions, requests
\* IpUnchanged with the comparison lost: every address counts as a change.
IpUnchangedNever(cur, ip) == FALSE

\* IpUnchanged taking an unset current_ip for an unchanged address.
IpUnchangedOrNone(cur, ip) == cur = None \/ cur.val = ip

\* if let Some(ref current) = self.current_ip { if current == &external_ip
IpUnchanged(cur, ip) == cur # None /\ cur.val = ip

\* filter_map of get_current_entries: the CIDRs of the entries whose
\* description is the monitor's.  A Vec in the code; the list holds one entry
\* per CIDR and the code uses only contains, is_empty, len and iteration.
OwnedCidrs(es, desc) == {e.cidr : e \in {x \in es : x.description = desc}}

\* current_entries.contains(&new_cidr)
AlreadyInList(owned, cidr) == cidr \in owned

\* ModifyRequest without the loop over old_cidrs.
ModifyRequestNoRemovals(ver, cidr, old_cidrs, desc) ==
    [ current_version |-> ver,
      remove_entries  |-> {},
      add_entries     |-> {[cidr |-> cidr, description |-> desc]} ]

\* The request update_prefix_list builds: guarded by the version just read,
\* one RemovePrefixListEntry per old CIDR, one AddPrefixListEntry.
ModifyRequest(ver, cidr, old_cidrs, desc) ==
    [ current_version |-> ver,
      remove_entries  |-> old_cidrs,
      add_entries     |-> {[cidr |-> cidr, description |-> desc]} ]

\* The service applying an accepted request: entries are removed by CIDR,
\* whatever their description; an added CIDR replaces an entry of that CIDR.
EntriesAfter(es, req) ==
    {e \in es : /\ e.cidr \notin req.remove_entries
                /\ \A a \in req.add_entries : a.cidr # e.cidr}
        \cup req.add_entries

\* What check_and_update returns from each of its exits.
ReturnValue(o) ==
    CASE o \in {"Unchanged", "AlreadyPresent"} -> "Ok(false)"
      [] o = "Updated" -> "Ok(true)"
      [] o \in {"FetchFailed", "InvalidAddress", "ListFailed", "VersionFailed",
                "VersionConflict", "ModifyFailed"} -> "Err"
      [] OTHER -> "pending"

\* ---------------------------------------------------------- get_external_ip
\* reqwest::get(..).await? or .text().await? fails.
FetchFails ==
    /\ pc = "check"
    /\ response' = FetchError
    /\ calls' = Append(calls, "fetch")
    /\ outcome' = "FetchFailed"
    /\ pc' = "returned"
    /\ UNCHANGED <<monitor, control, locals, remote, request, start_ip, listed_at,
                   applied, first_cycle, after_conflict>>

\* The body, trimmed, is no IPv4 address: Err("Invalid IP address format").
FetchInvalid ==
    /\ pc = "check"
    /\ \E r \in Responses :
        /\ ~IsValidIpv4(Trim(r))
        /\ response' = Some(r)
    /\ calls' = Append(calls, "fetch")
    /\ outcome' = "InvalidAddress"
    /\ pc' = "returned"
    /\ UNCHANGED <<monitor, control, locals, remote, request, start_ip, listed_at,
                   applied, first_cycle, after_conflict>>

\* A valid address equal to current_ip: return Ok(false).
FetchUnchanged ==
    /\ pc = "check"
    /\ \E r \in Responses :
        /\ IsValidIpv4(Trim(r))
        /\ IpUnchanged(current_ip, Trim(r))
        /\ response' = Some(r)
        /\ external_ip' = Trim(r)
        /\ new_cidr' = FormatCidr(Trim(r), cidr_suffix)
    /\ calls' = Append(calls, "fetch")
    /\ outcome' = "Unchanged"
    /\ pc' = "returned"
    /\ UNCHANGED <<monitor, control, current_entries, version, remote, request,
                   start_ip, listed_at, applied, first_cycle, after_conflict>>

\* A valid address that differs from current_ip, or no current_ip: go on.
FetchChanged ==
    /\ pc = "check"
    /\ \E r \in Responses :
        /\ IsValidIpv4(Trim(r))
        /\ ~IpUnchanged(current_ip, Trim(r))
        /\ response' = Some(r)
        /\ external_ip' = Trim(r)
        /\ new_cidr' = FormatCidr(Trim(r), cidr_suffix)
    /\ calls' = Append(calls, "fetch")
    /\ pc' = "list"
    /\ UNCHANGED <<monitor, control, current_entries, version, remote, request,
                   outcome, start_ip, listed_at, applied, first_cycle,
                   after_conflict>>

\* ------------------------------------------------------ get_current_entries
\* get_managed_prefix_list_entries fails: check_and_update returns the error.
ListFails ==
    /\ pc = "list"
    /\ calls' = Append(calls, "list")
    /\ outcome' = "ListFailed"
    /\ pc' = "returned"
    /\ UNCHANGED <<monitor, control, locals, remote, response, request, start_ip,
                   listed_at, applied, first_cycle, after_conflict>>

\* ListAlreadyPresent without the assignment to current_ip.
ListAlreadyPresentKeepsIp ==
    /\ pc = "list"
    /\ AlreadyInList(OwnedCidrs(entries, description), new_cidr)
    /\ current_entries' = OwnedCidrs(entries, description)
    /\ listed_at' = list_version
    /\ calls' = Append(calls, "list")
    /\ outcome' = "AlreadyPresent"
    /\ pc' = "returned"
    /\ UNCHANGED <<monitor, control, external_ip, new_cidr, version, remote,
                   response, request, start_ip, applied, first_cycle,
                   after_conflict>>

\* The listing holds the new CIDR: current_ip is set, return Ok(false).
ListAlreadyPresent ==
    /\ pc = "list"
    /\ AlreadyInList(OwnedCidrs(entries, description), new_cidr)
    /\ current_entries' = OwnedCidrs(entries, description)
    /\ listed_at' = list_version
    /\ calls' = Append(calls, "list")
    /\ current_ip' = Some(external_ip)
    /\ outcome' = "AlreadyPresent"
    /\ pc' = "returned"
    /\ UNCHANGED <<prefix_list_id, description, cidr_suffix, control, external_ip,
                   new_cidr, version, remote, response, request, start_ip,
                   applied, first_cycle, after_conflict>>

\* The listing does not hold the new CIDR: update_prefix_list is called.
ListNeedsUpdate ==
    /\ pc = "list"
    /\ ~AlreadyInList(OwnedCidrs(entries, description), new_cidr)
    /\ current_entries' = OwnedCidrs(entries, description)
    /\ listed_at' = list_version
    /\ calls' = Append(calls, "list")
    /\ pc' = "version"
    /\ UNCHANGED <<monitor, control, external_ip, new_cidr, version, remote,
                   response, request, outcome, start_ip, applied, first_cycle,
                   after_conflict>>

\* -------------------------------------------------- get_prefix_list_version
\* describe_managed_prefix_lists fails, or names no list.
VersionFails ==
    /\ pc = "version"
    /\ calls' = Append(calls, "version")
    /\ outcome' = "VersionFailed"
    /\ pc' = "returned"
    /\ UNCHANGED <<monitor, control, locals, remote, response, request, start_ip,
                   listed_at, applied, first_cycle, after_conflict>>

\* The list's version as the service reports it now.
VersionRead ==
    /\ pc = "version"
    /\ version' = list_version
    /\ calls' = Append(calls, "version")
    /\ pc' = "modify"
    /\ UNCHANGED <<monitor, control, external_ip, new_cidr, current_entries,
                   remote, response, request, outcome, start_ip, listed_at,
                   applied, first_cycle, after_conflict>>

\* The answer carries no version: prefix_list.version().unwrap_or(0).
VersionMissing ==
    /\ pc = "version"
    /\ version' = 0
    /\ calls' = Append(calls, "version")
    /\ pc' = "modify"
    /\ UNCHANGED <<monitor, control, external_ip, new_cidr, current_entries,
                   remote, response, request, outcome, start_ip, listed_at,
                   applied, first_cycle, after_conflict>>

\* ------------------------------------------------------- update_prefix_list
\* ModifyVersionConflict with current_ip set before the send's error is seen.
ModifyVersionConflictSetsIp ==
    /\ pc = "modify"
    /\ version # list_version
    /\ request' = Some(ModifyRequest(version, new_cidr, current_entries, description))
    /\ calls' = Append(calls, "modify")
    /\ current_ip' = Some(external_ip)
    /\ outcome' = "VersionConflict"
    /\ pc' = "returned"
    /\ UNCHANGED <<prefix_list_id, description, cidr_suffix, control, locals,
                   remote, response, start_ip, listed_at, applied, first_cycle,
                   after_conflict>>

\* modify_request.send(): the guard is stale, the service rejects the request.
ModifyVersionConflict ==
    /\ pc = "modify"
    /\ version # list_version
    /\ request' = Some(ModifyRequest(version, new_cidr, current_entries, description))
    /\ calls' = Append(calls, "modify")
    /\ outcome' = "VersionConflict"
    /\ pc' = "returned"
    /\ UNCHANGED <<monitor, control, locals, remote, response, start_ip, listed_at,
                   applied, first_cycle, after_conflict>>

\* ModifyFails followed by another send of the request in the same cycle.
ModifyFailsRetries ==
    /\ pc = "modify"
    /\ request' = Some(ModifyRequest(version, new_cidr, current_entries, description))
    /\ calls' = Append(calls, "modify")
    /\ pc' = "modify"
    /\ UNCHANGED <<monitor, control, locals, remote, response, outcome, start_ip,
                   listed_at, applied, first_cycle, after_conflict>>

\* modify_request.send() fails for another reason (credentials, network, the
\* list is gone, the service refuses the entries).
ModifyFails ==
    /\ pc = "modify"
    /\ request' = Some(ModifyRequest(version, new_cidr, current_entries, description))
    /\ calls' = Append(calls, "modify")
    /\ outcome' = "ModifyFailed"
    /\ pc' = "returned"
    /\ UNCHANGED <<monitor, control, locals, remote, response, start_ip, listed_at,
                   applied, first_cycle, after_conflict>>

\* The guard matches: the service applies the request as one edit, and
\* check_and_update sets current_ip and returns Ok(true).
ModifyApplied ==
    /\ pc = "modify"
    /\ version = list_version
    /\ list_version < MaxVersion
    /\ LET req == ModifyRequest(version, new_cidr, current_entries, description)
       IN  /\ request' = Some(req)
           /\ entries' = EntriesAfter(entries, req)
           /\ applied' = Some([ removed  |-> {e \in entries : e.cidr \in req.remove_entries},
                                replaced |-> {e \in entries : \E a \in req.add_entries :
                                                                a.cidr = e.cidr},
                                missing  |-> {c \in req.remove_entries :
                                                \A e \in entries : e.cidr # c} ])
    /\ list_version' = list_version + 1
    /\ calls' = Append(calls, "modify")
    /\ current_ip' = Some(external_ip)
    /\ outcome' = "Updated"
    /\ pc' = "returned"
    /\ UNCHANGED <<prefix_list_id, description, cidr_suffix, control, locals,
                   response, start_ip, listed_at, first_cycle, after_conflict>>

\* ---------------------------------------------------------------------- run
\* The level of the line run's match logs for what check_and_update returned:
\* info! for Ok(true), nothing for Ok(false), error! for every Err(e).
RunLogLevel(ret) ==
    CASE ret = "Ok(true)" -> "info"
      [] ret = "Ok(false)" -> "none"
      [] OTHER -> "error"

\* main: monitor.run(interval, once).await?; Ok(())  gives the exit status.
ExitCode(result) == IF result = "Ok(())" THEN 0 ELSE 1

\* The state a new call of check_and_update starts from.
CycleReset ==
    /\ external_ip' = <<>>
    /\ new_cidr' = <<>>
    /\ current_entries' = {}
    /\ version' = 0
    /\ response' = None
    /\ calls' = <<>>
    /\ request' = None
    /\ outcome' = "running"
    /\ start_ip' = current_ip
    /\ listed_at' = 0
    /\ applied' = None
    /\ first_cycle' = FALSE
    /\ after_conflict' = IF outcome = "VersionConflict" THEN Some(external_ip) ELSE None

\* RunOnceExit with the cycle's error returned from run.
RunOnceExitPropagates ==
    /\ pc = "returned"
    /\ once
    /\ logged' = RunLogLevel(ReturnValue(outcome))
    /\ pc' = "exit"
    /\ run_result' = IF ReturnValue(outcome) = "Err" THEN "Err" ELSE "Ok(())"
    /\ UNCHANGED <<monitor, once, locals, remote, history, first_cycle,
                   after_conflict>>

\* The match on the cycle's result, then if once { break; } and Ok(()).
RunOnceExit ==
    /\ pc = "returned"
    /\ once
    /\ logged' = RunLogLevel(ReturnValue(outcome))
    /\ pc' = "exit"
    /\ run_result' = "Ok(())"
    /\ UNCHANGED <<monitor, once, locals, remote, history, first_cycle,
                   after_conflict>>

\* RunSleep leaving the loop when the cycle returned an error.
RunSleepBreaksOnError ==
    /\ pc = "returned"
    /\ ~once
    /\ logged' = RunLogLevel(ReturnValue(outcome))
    /\ pc' = IF ReturnValue(outcome) = "Err" THEN "exit" ELSE "sleep"
    /\ run_result' = IF ReturnValue(outcome) = "Err" THEN "Err" ELSE run_result
    /\ UNCHANGED <<monitor, once, locals, remote, history, first_cycle,
                   after_conflict>>

\* RunSleep without the sleep: the next cycle starts at once.
RunSleepSkips ==
    /\ pc = "returned"
    /\ ~once
    /\ logged' = "none"
    /\ pc' = "check"
    /\ CycleReset
    /\ UNCHANGED <<monitor, once, run_result, remote>>

\* The match on the cycle's result, then time::sleep(interval).await begins.
RunSleep ==
    /\ pc = "returned"
    /\ ~once
    /\ logged' = RunLogLevel(ReturnValue(outcome))
    /\ pc' = "sleep"
    /\ UNCHANGED <<monitor, once, run_result, locals, remote, history,
                   first_cycle, after_conflict>>

\* The sleep ends and the loop calls check_and_update again.
SleepElapsed ==
    /\ pc = "sleep"
    /\ pc' = "check"
    /\ logged' = "none"
    /\ CycleReset
    /\ UNCHANGED <<monitor, once, run_result, remote>>

\* A call of the cycle in progress gets no answer.  No call carries a
\* timeout, so its future stays pending and the cycle goes no further.
CallStalls ==
    /\ pc \in {"check", "list", "version", "modify"}
    /\ calls' = Append(calls, CASE pc = "check" -> "fetch"
                                [] pc = "list" -> "list"
                                [] pc = "version" -> "version"
                                [] OTHER -> "modify")
    /\ pc' = "stalled"
    /\ UNCHANGED <<monitor, control, locals, remote, response, request, outcome,
                   start_ip, listed_at, applied, first_cycle, after_conflict>>

\* --------------------------------------------------------- external writers
\* Another writer adds an entry, or changes the description of one.
ExternalPut ==
    /\ list_version < MaxVersion
    /\ \E c \in Cidrs, d \in RemoteDescriptions :
        /\ [cidr |-> c, description |-> d] \notin entries
        /\ entries' = {e \in entries : e.cidr # c}
                        \cup {[cidr |-> c, description |-> d]}
    /\ list_version' = list_version + 1
    /\ UNCHANGED <<monitor, control, pc, locals, history, first_cycle, after_conflict>>

\* Another writer removes an entry.
ExternalRemove ==
    /\ list_version < MaxVersion
    /\ \E e \in entries : entries' = entries \ {e}
    /\ list_version' = list_version + 1
    /\ UNCHANGED <<monitor, control, pc, locals, history, first_cycle, after_conflict>>

Next ==
    \/ FetchFails
    \/ FetchInvalid
    \/ FetchUnchanged
    \/ FetchChanged
    \/ ListFails
    \/ ListAlreadyPresent
    \/ ListNeedsUpdate
    \/ VersionFails
    \/ VersionRead
    \/ VersionMissing
    \/ ModifyVersionConflict
    \/ ModifyFails
    \/ ModifyApplied
    \/ RunOnceExit
    \/ RunSleep
    \/ SleepElapsed
    \/ CallStalls
    \/ ExternalPut
    \/ ExternalRemove

Spec == Init /\ [][Next]_vars

\* The steps of check_and_update: a pending call is answered, fails or stalls.
CycleStep ==
    \/ FetchFails \/ FetchInvalid \/ FetchUnchanged \/ FetchChanged
    \/ ListFails \/ ListAlreadyPresent \/ ListNeedsUpdate
    \/ VersionFails \/ VersionRead \/ VersionMissing
    \/ ModifyVersionConflict \/ ModifyFails \/ ModifyApplied
    \/ CallStalls

\* The steps of run's loop around check_and_update.
RunStep == RunOnceExit \/ RunSleep \/ SleepElapsed

\* The runtime keeps polling run's future: a call that is answered lets the
\* cycle go on, and the timer of time::sleep fires after the interval.
FairSpec == Spec /\ WF_vars(CycleStep) /\ WF_vars(RunStep)

\* Runs in once mode over every prefix length of IPv4, the list empty at first.
CidrInit ==
    /\ prefix_list_id \in PrefixListIds
    /\ description = "Auto-updated host IP"
    /\ current_ip = None
    /\ cidr_suffix \in 0..32
    /\ once = TRUE
    /\ pc = "check"
    /\ run_result = "running"
    /\ logged = "none"
    /\ external_ip = <<>>
    /\ new_cidr = <<>>
    /\ current_entries = {}
    /\ version = 0
    /\ entries = {}
    /\ list_version = 1
    /\ response = None
    /\ calls = <<>>
    /\ request = None
    /\ outcome = "running"
    /\ start_ip = None
    /\ listed_at = 0
    /\ applied = None
    /\ first_cycle = TRUE
    /\ after_conflict = None

CidrNext ==
    \/ FetchInvalid
    \/ FetchChanged
    \/ ListAlreadyPresent
    \/ ListNeedsUpdate
    \/ VersionRead
    \/ ModifyVersionConflict
    \/ ModifyApplied
    \/ RunOnceExit
    \/ ExternalPut

CidrSpec == CidrInit /\ [][CidrNext]_vars

TypeOK ==
    /\ pc \in {"check", "list", "version", "modify", "stalled", "returned",
             "sleep", "exit"}
    /\ run_result \in {"running", "Ok(())"}
    /\ logged \in {"none", "info", "error"}
    /\ current_ip \in {None} \cup {Some(a) : a \in Addresses}
    /\ UniqueCidrs(entries)
    /\ list_version \in 1..MaxVersion
    /\ version \in 0..MaxVersion
    /\ current_entries \subseteq Cidrs

\* ------------------------------------------------------------------ claims
\* The cycle has ended: check_and_update has returned.
CycleOver == outcome # "running"

\* The fetch of this cycle answered with a valid address.
Fetched(a) == response # None /\ response # FetchError /\ Trim(response.val) = a

\* info!("Replacing {} old entries with new CIDR {}", current_entries.len(), ..)
RemovedCount == Cardinality(current_entries)

\* C1: whenever the address fetched in a cycle equals the current_ip the cycle
\* started with, the cycle has returned Ok(false) from the fast path, its only
\* call is the fetch (no listing, no version read, no modify request) and
\* current_ip is what it was.
C1_FastPath ==
    (start_ip # None /\ Fetched(start_ip.val)) =>
        /\ outcome = "Unchanged"
        /\ ReturnValue(outcome) = "Ok(false)"
        /\ calls = <<"fetch">>
        /\ request = None
        /\ applied = None
        /\ current_ip = start_ip

C1_Witness ==
    /\ outcome = "Unchanged"
    /\ start_ip = Some(Addr5678)
    /\ response = Some(<<" ">> \o Addr5678 \o <<"\n">>)

\* C6: whenever the listing of a cycle holds the new CIDR, the cycle has
\* returned Ok(false) after the fetch and the listing alone (no version read,
\* no modify request, nothing applied to the list) and current_ip is the
\* fetched address.
C6_AlreadyPresent ==
    (listed_at # 0 /\ new_cidr \in current_entries) =>
        /\ outcome = "AlreadyPresent"
        /\ ReturnValue(outcome) = "Ok(false)"
        /\ calls = <<"fetch", "list">>
        /\ request = None
        /\ applied = None
        /\ current_ip = Some(external_ip)
        /\ Fetched(external_ip)

C6_Witness ==
    /\ outcome = "AlreadyPresent"
    /\ start_ip = Some(Addr192)
    /\ current_ip = Some(Addr5678)
    /\ Cardinality(current_entries) = 2

\* C7: a fetch that fails, or answers a body that, trimmed, is no IPv4 dotted
\* quad ("invalid", "256.1.1.1", "timeout", the empty body), ends the cycle
\* with an error after the fetch alone, current_ip as it was; the body
\* "192.168.1.1" (and " 5.6.7.8\n", by trimming) is accepted as that address.
C7_FetchFailure ==
    /\ (response = FetchError \/ (response # None /\ response # FetchError
                                    /\ ~IsValidIpv4(Trim(response.val)))) =>
            /\ ReturnValue(outcome) = "Err"
            /\ calls = <<"fetch">>
            /\ request = None
            /\ applied = None
            /\ current_ip = start_ip
    /\ \A bad \in { <<"i","n","v","a","l","i","d">>,
                   <<"2","5","6",".","1",".","1",".","1">>,
                   <<"t","i","m","e","o","u","t">>,
                   <<>> } :
            response = Some(bad) => outcome = "InvalidAddress"
    /\ \A a \in Addresses :
            Fetched(a) => /\ outcome \notin {"FetchFailed", "InvalidAddress"}
                          /\ external_ip = a

C7_Witness ==
    /\ response = Some(<<"2","5","6",".","1",".","1",".","1">>)
    /\ outcome = "InvalidAddress"
    /\ start_ip = Some(Addr192)
    /\ current_ip = start_ip

\* C9: current_ip changes only in the step that ends a cycle with
\* AlreadyPresent or Updated, and then to the address that cycle fetched; a
\* step that ends a cycle any other way leaves it; prefix_list_id, description
\* and cidr_suffix never change.
C9_Frame ==
    [][ /\ (current_ip' # current_ip =>
                /\ outcome = "running"
                /\ outcome' \in {"AlreadyPresent", "Updated"}
                /\ Fetched(external_ip)
                /\ current_ip' = Some(external_ip))
        /\ ((outcome = "running" /\ outcome' \notin {"running", "AlreadyPresent", "Updated"}) =>
                current_ip' = current_ip)
        /\ UNCHANGED <<prefix_list_id, description, cidr_suffix>> ]_vars

C9_Witness ==
    /\ outcome = "VersionConflict"
    /\ start_ip = Some(Addr192)
    /\ external_ip = Addr5678
    /\ current_ip = Some(Addr192)

\* The request a cycle is to send for what it fetched, listed and read.
ExpectedRequest ==
    Some([ current_version |-> version,
           remove_entries  |-> current_entries,
           add_entries     |-> {[cidr |-> new_cidr, description |-> description]} ])

AllCalls == <<"fetch", "list", "version", "modify">>

\* The cycle listed the owned entries and the new CIDR was not among them.
ChangeToApply == listed_at # 0 /\ new_cidr \notin current_entries

\* C2, as claimed: a cycle whose listing does not hold the new CIDR submits
\* exactly one modify request, removing the listed CIDRs and adding the new
\* CIDR with the description; applied, the cycle returns Ok(true), counts the
\* listed entries as removed and sets current_ip to the fetched address.
C2_Original ==
    (CycleOver /\ ChangeToApply) =>
        /\ calls = AllCalls
        /\ request = ExpectedRequest
        /\ (outcome = "Updated" =>
                /\ ReturnValue(outcome) = "Ok(true)"
                /\ RemovedCount = Cardinality(request.val.remove_entries)
                /\ current_ip = Some(external_ip))

\* C2, amended: the same of a cycle whose version read succeeds; a cycle
\* whose version read fails submits no modify request.  No request is
\* submitted in any other cycle.
C2_ChangeRequest ==
    /\ (CycleOver /\ ChangeToApply /\ outcome # "VersionFailed") =>
            /\ calls = AllCalls
            /\ request = ExpectedRequest
            /\ request.val.add_entries =
                    {[cidr |-> FormatCidr(external_ip, cidr_suffix),
                      description |-> description]}
            /\ (outcome = "Updated" =>
                    /\ ReturnValue(outcome) = "Ok(true)"
                    /\ applied # None
                    /\ RemovedCount = Cardinality(request.val.remove_entries)
                    /\ current_ip = Some(external_ip))
    /\ (CycleOver /\ ChangeToApply /\ outcome = "VersionFailed") =>
            /\ calls = <<"fetch", "list", "version">>
            /\ request = None
    /\ (request # None => CycleOver /\ ChangeToApply)

C2_Witness ==
    /\ outcome = "Updated"
    /\ start_ip = Some(Addr192)
    /\ external_ip = Addr5678
    /\ request = Some([ current_version |-> 1,
                        remove_entries  |-> {FormatCidr(Addr192, 32)},
                        add_entries     |-> {[cidr |-> FormatCidr(Addr5678, 32),
                                              description |-> "Auto-updated host IP"]} ])
    /\ current_ip = Some(Addr5678)

\* C3: a modify request is applied only if the list is at the version the
\* cycle's listing was taken at: no external edit falls between the listing
\* and the applied request, and the guard is not newer than the listing.
C3_LostUpdateProtection ==
    applied # None => listed_at = request.val.current_version

\* C4, as claimed: a cycle whose modify request is rejected for a stale
\* version returns an error and leaves current_ip; the next cycle, fetching
\* that address again, makes all four calls.
C4_Original ==
    /\ (outcome = "VersionConflict" =>
            /\ ReturnValue(outcome) = "Err"
            /\ current_ip = start_ip)
    /\ (after_conflict # None /\ Fetched(after_conflict.val) /\ CycleOver) =>
            calls = AllCalls

\* C4, amended: the next cycle, fetching that address again, does not return
\* from the fast path: it lists the owned entries, reads the version unless
\* the listing fails or holds the new CIDR, and submits the modify request
\* unless the version read fails.
C4_ConflictRetry ==
    /\ (outcome = "VersionConflict" =>
            /\ ReturnValue(outcome) = "Err"
            /\ applied = None
            /\ current_ip = start_ip
            /\ current_ip # Some(external_ip))
    /\ (after_conflict # None /\ Fetched(after_conflict.val)) =>
            /\ outcome # "Unchanged"
            /\ CycleOver =>
                calls = CASE outcome \in {"ListFailed", "AlreadyPresent"} ->
                                <<"fetch", "list">>
                          [] outcome = "VersionFailed" ->
                                <<"fetch", "list", "version">>
                          [] OTHER -> AllCalls

C4_Witness ==
    /\ after_conflict = Some(Addr5678)
    /\ start_ip = Some(Addr192)
    /\ outcome = "Updated"
    /\ current_ip = Some(Addr5678)

\* C5: the step that ends a cycle with Updated or AlreadyPresent leaves the
\* list with exactly one entry of the monitor's description, the new CIDR.
C5_SingleOwnedEntry ==
    [][ (outcome = "running" /\ outcome' \in {"Updated", "AlreadyPresent"}) =>
            {e \in entries' : e.description = description}
                = {[cidr |-> new_cidr, description |-> description]} ]_vars

\* C8: every entry an applied modify request removed from the list had the
\* monitor's description when the request was applied.
C8_OnlyOwnedRemoved ==
    applied # None => \A e \in applied.val.removed : e.description = description

\* C10, as claimed: in the first cycle current_ip is unset, so a valid
\* address is never taken for unchanged and the owned entries are listed; a
\* cycle that lists no owned entry submits a modify request that removes
\* nothing and adds the new CIDR with the description.
C10_Original ==
    first_cycle =>
        /\ start_ip = None
        /\ (\E a \in Addresses : Fetched(a)) =>
                /\ outcome # "Unchanged"
                /\ CycleOver => (Len(calls) >= 2 /\ calls[2] = "list")
        /\ (CycleOver /\ listed_at # 0 /\ current_entries = {}) =>
                request = Some([ current_version |-> version,
                                 remove_entries  |-> {},
                                 add_entries     |-> {[cidr |-> new_cidr,
                                                       description |-> description]} ])

\* C10, amended: the same, the request being submitted when the version read
\* succeeds.
C10_ColdStart ==
    first_cycle =>
        /\ start_ip = None
        /\ (~CycleOver => current_ip = None)
        /\ (\E a \in Addresses : Fetched(a)) =>
                /\ outcome # "Unchanged"
                /\ CycleOver => (Len(calls) >= 2 /\ calls[2] = "list")
        /\ (CycleOver /\ listed_at # 0 /\ current_entries = {}
                /\ outcome # "VersionFailed") =>
                /\ calls = AllCalls
                /\ request = Some([ current_version |-> version,
                                    remove_entries  |-> {},
                                    add_entries     |-> {[cidr |-> FormatCidr(external_ip, cidr_suffix),
                                                          description |-> description]} ])

C10_Witness ==
    /\ first_cycle
    /\ outcome = "Updated"
    /\ current_entries = {}
    /\ request # None
    /\ request.val.remove_entries = {}
    /\ entries = {[cidr |-> FormatCidr(Addr192, 24), description |-> description]}

SuffixText ==
    << <<"0">>, <<"1">>, <<"2">>, <<"3">>, <<"4">>, <<"5">>,
       <<"6">>, <<"7">>, <<"8">>, <<"9">>, <<"1","0">>, <<"1","1">>,
       <<"1","2">>, <<"1","3">>, <<"1","4">>, <<"1","5">>, <<"1","6">>, <<"1","7">>,
       <<"1","8">>, <<"1","9">>, <<"2","0">>, <<"2","1">>, <<"2","2">>, <<"2","3">>,
       <<"2","4">>, <<"2","5">>, <<"2","6">>, <<"2","7">>, <<"2","8">>, <<"2","9">>,
       <<"3","0">>, <<"3","1">>, <<"3","2">> >>

\* The CIDR of the address this cycle fetched, written out.
CandidateText == external_ip \o <<"/">> \o SuffixText[cidr_suffix + 1]

\* C13: once a cycle has fetched a valid address, new_cidr is that address,
\* then "/", then the prefix length in decimal, for every length from 0 to
\* 32; that text is what the listing is searched for and what a modify
\* request adds.
C13_CandidateCidr ==
    /\ (\E a \in Addresses : Fetched(a)) =>
            /\ IsValidIpv4(external_ip)
            /\ Fetched(external_ip)
            /\ new_cidr = CandidateText
    /\ outcome = "AlreadyPresent" => CandidateText \in current_entries
    /\ pc \in {"version", "modify"} => CandidateText \notin current_entries
    /\ request # None =>
            request.val.add_entries =
                {[cidr |-> CandidateText, description |-> description]}

C13_Witness ==
    /\ cidr_suffix = 0
    /\ outcome = "Updated"
    /\ request # None
    /\ request.val.add_entries =
            {[cidr |-> <<"1","9","2",".","1","6","8",".","1",".","1","/","0">>,
              description |-> "Auto-updated host IP"]}

\* C14: a cycle that has not completed can always take a step: the call it
\* waits for is answered or fails, so the cycle reaches an outcome.
C14_CallsComplete == ~CycleOver => ENABLED CycleStep

\* C15: a cycle that failed on a stale version is told apart from a cycle
\* that failed on another error of the modify call: run logs it below
\* error!, and what check_and_update returned differs.
C15_ConflictDistinguished ==
    (pc \in {"sleep", "exit"} /\ outcome = "VersionConflict") =>
        /\ logged # "error"
        /\ ReturnValue(outcome) # ReturnValue("ModifyFailed")

\* s is the first Len(s) elements of t.
IsPrefix(s, t) == Len(s) <= Len(t) /\ \A i \in 1..Len(s) : s[i] = t[i]

\* C16: the calls of a cycle are a prefix of fetch, list, version, modify,
\* each made once and only after the one before it succeeded without an
\* early return; the request carries the version the cycle's version read
\* returned, read after the listing; a failed modify ends the cycle.
C16_CallOrder ==
    /\ IsPrefix(calls, AllCalls)
    /\ Len(calls) >= 2 =>
            /\ Fetched(external_ip)
            /\ IsValidIpv4(external_ip)
            /\ start_ip # Some(external_ip)
    /\ Len(calls) >= 3 => ChangeToApply
    /\ Len(calls) = 4 =>
            /\ pc \notin {"check", "list", "version"}
            /\ version \in {0} \cup listed_at..MaxVersion
    /\ request # None =>
            /\ calls = AllCalls
            /\ request.val.current_version = version
            /\ CycleOver
    /\ outcome \in {"VersionConflict", "ModifyFailed"} =>
            /\ calls = AllCalls
            /\ applied = None
            /\ pc \in {"returned", "sleep", "exit"}

C16_Witness ==
    /\ outcome = "ModifyFailed"
    /\ calls = AllCalls
    /\ listed_at = 1
    /\ version = 2
    /\ request # None
    /\ request.val.current_version = 2

\* C17: one cycle at a time: a cycle starts only from the sleep that follows
\* a completed cycle, the sleep begins only once check_and_update has
\* returned, and current_ip is assigned only by the returning step of the
\* cycle in progress.
C17_Sequential ==
    /\ [](pc \in {"check", "list", "version", "modify", "stalled"} <=> ~CycleOver)
    /\ [][(CycleOver /\ outcome' = "running") =>
            (pc = "sleep" /\ pc' = "check" /\ calls' = <<>>)]_vars
    /\ [][(pc' = "sleep" /\ pc # "sleep") => (pc = "returned" /\ CycleOver)]_vars
    /\ [][current_ip' # current_ip =>
            (~CycleOver /\ outcome' # "running" /\ pc' = "returned")]_vars

C17_Witness ==
    /\ ~first_cycle
    /\ pc = "modify"
    /\ start_ip = Some(Addr192)

\* The entry the monitor keeps for address a.
OwnedEntry(a) == [cidr |-> FormatCidr(a, cidr_suffix), description |-> description]

\* C19: in a cycle that starts with current_ip = a and fetches a the monitor
\* makes no call to the list; and while current_ip = a, no step of the
\* monitor puts back a's entry when it is missing from the list.
C19_NoDriftRepair ==
    /\ [](\A a \in Addresses :
            (~first_cycle /\ start_ip = Some(a) /\ Fetched(a)) =>
                /\ calls = <<"fetch">>
                /\ listed_at = 0
                /\ request = None
                /\ applied = None
                /\ current_ip = Some(a))
    /\ [][\A a \in Addresses :
            (current_ip = Some(a) /\ OwnedEntry(a) \notin entries
                /\ OwnedEntry(a) \in entries') =>
                    (applied' = applied /\ calls' = calls)]_vars

C19_Witness ==
    /\ ~first_cycle
    /\ start_ip = Some(Addr5678)
    /\ outcome = "Unchanged"
    /\ OwnedEntry(Addr5678) \notin entries
    /\ pc = "sleep"

\* ------------------------------------------------------------ convergence
\* The address the IP service answers with from the stable point on.
StableAddress == Addr5678

\* The fetch of this step was answered with the stable address.
StableAnswer == response # None /\ response # FetchError /\ Trim(response.val) = StableAddress

\* run in continuous mode at the start of a cycle, after any past: the
\* remembered address is none, another address or the stable one, and the
\* list is in any state earlier edits can have left it in.
ConvergeInit ==
    /\ prefix_list_id \in PrefixListIds
    /\ description \in Descriptions
    /\ current_ip \in {None} \cup {Some(a) : a \in Addresses}
    /\ cidr_suffix \in Suffixes
    /\ once = FALSE
    /\ pc = "check"
    /\ run_result = "running"
    /\ logged = "none"
    /\ external_ip = <<>>
    /\ new_cidr = <<>>
    /\ current_entries = {}
    /\ version = 0
    /\ entries \in {es \in SUBSET [cidr : Cidrs, description : RemoteDescriptions] :
                        UniqueCidrs(es)}
    /\ list_version \in 1..(MaxVersion - 1)
    /\ response = None
    /\ calls = <<>>
    /\ request = None
    /\ outcome = "running"
    /\ start_ip = current_ip
    /\ listed_at = 0
    /\ applied = None
    /\ first_cycle = (current_ip = None)
    /\ after_conflict = None

\* The loop of run from the stable point on: every fetch is answered with
\* the stable address, every call to the service succeeds, and nothing else
\* writes to the list.
ConvergeNext ==
    \/ (FetchUnchanged /\ StableAnswer')
    \/ (FetchChanged /\ StableAnswer')
    \/ ListAlreadyPresent
    \/ ListNeedsUpdate
    \/ VersionRead
    \/ ModifyApplied
    \/ RunSleep
    \/ SleepElapsed

\* The runtime keeps polling run's future, so an answered call lets the cycle
\* go on and the timer of time::sleep fires.
ConvergeSpec ==
    ConvergeInit /\ [][ConvergeNext]_vars /\ WF_vars(CycleStep) /\ WF_vars(RunStep)

\* The remembered address is the stable one and the list holds its entry.
Converged == current_ip = Some(StableAddress) /\ OwnedEntry(StableAddress) \in entries

\* From now on the list stays converged and every cycle returns Ok(false)
\* by the fast path.
Settled == Converged /\ (CycleOver => outcome = "Unchanged")

\* C18 as stated: from the stable point on, whatever the remembered address
\* and the list are at that point, the monitor eventually remembers the stable
\* address, the list holds its entry, and every later cycle returns Unchanged.
C18_Original == <>[]Settled

\* C18, amended: the same holds when, at the stable point, the remembered
\* address differs from the stable address (or is none) or the list already
\* holds the entry of the stable address.
C18_Convergence ==
    (current_ip # Some(StableAddress) \/ OwnedEntry(StableAddress) \in entries)
        => <>[]Settled

\* A cycle that started with another address remembered has put the entry of
\* the stable address into the list and remembers the stable address.
C18_Witness ==
    /\ start_ip = Some(Addr192)
    /\ outcome = "Updated"
    /\ pc = "sleep"
    /\ Converged
    /\ OwnedEntry(Addr192) \notin entries

====
